---------------------------- MODULE Spec2Model ----------------------------
(***************************************************************************)
(* A model of the sandboxed code execution engine of the hotel data agent: *)
(* the code extractor (_extract_code_from_response) and the sandbox        *)
(* executor (_execute_function_safely_using_exec) of                       *)
(* backend/helpers/code_executor.py, the executor variant of               *)
(* trials/agent_with_code_execution_ft.py, and the sheet reader            *)
(* (_read_sheet_with_custom_header) of                                     *)
(* backend/helpers/excel_file_reader.py; and of the chat around it: the    *)
(* endpoint and the response stream of backend/app.py, the input guardrail *)
(* of backend/input_guardrail_agent.py and the message history of          *)
(* frontend/hotel_data_chat_ui.py.                                         *)
(*                                                                         *)
(* Text is modelled as a sequence of characters, each a string.  The       *)
(* source handed to exec() is modelled as the sequence of statements the   *)
(* interpreter runs, each statement drawn from a small universe.           *)
(***************************************************************************)
EXTENDS Integers, Sequences, FiniteSets, TLC

VARIABLES
    \* ---- code extractor ----
    response,       \* the text given to _extract_code_from_response
    xpc,            \* "idle" | "compose" | "extracted" | "again"
    code,           \* outcome of extract(response)
    again,          \* outcome of extract(extract(response))
    nchunks,        \* pieces typed into response so far
    \* ---- sandbox executor, one entry per execute call ----
    pc,             \* "idle" | "exec" | "call" | "returned" | "raised"
                    \* | "exec-loop" | "call-loop"
    function_name,  \* the entry point name the call was given
    safe_globals,   \* the call's global namespace: name -> value
    builtins,       \* the mapping under safe_globals["__builtins__"]
    local_vars,     \* the call's definition namespace: name -> value
    fn_locals,      \* the local names of the running entry point
    steps,          \* statements of the source run so far
    result,         \* the value the call returned
    value,          \* the value the entry point returned to the call
    error,          \* the exception raised in the call
    \* ---- the host process, shared by all calls ----
    module_attrs,   \* attributes set on the imported module objects
    file_access,    \* the name through which a file was last opened by path
    imports_done,   \* modules a source imported by name
    \* ---- observations about a call ----
    stray,          \* where the call evaluated an unlisted, unbound name
    solo_attrs,     \* module attributes as they would be had the call run alone
    solo,           \* the exception that ended the call's run alone early
    overlapped,     \* another call was in flight during this one
    \* ---- one source executed fenced and bare ----
    source,         \* the source text S
    fpc,            \* "idle" | "compose" | "done"
    bare,           \* outcome of execute(S, "f")
    fenced,         \* outcome of execute of S in a python-tagged fence
    \* ---- sheet reader ----
    df,             \* the sheet as read with header=None: rows of cells
    config,         \* the config argument of the read
    columns,        \* the columns argument of the read
    rpc,            \* "idle" | "compose" | "read"
    out,            \* outcome of _read_sheet_with_custom_header
    \* ---- chat: the frontend, the endpoint and the response stream ----
    messages,       \* st.session_state.messages of the frontend
    body,           \* the messages of the chat request in progress
    sender,         \* "none" | "ui" | "api": who posted the request
    status,         \* "none" | "sent" | "200" | "400" | "422"
    spc,            \* "idle" | "running" | "closed": agent_response_stream
    output,         \* the output of the guardrail function
    events          \* the events the response stream has yielded

xvars == <<response, xpc, code, again, nchunks>>

evars == <<pc, function_name, safe_globals, builtins, local_vars, fn_locals,
           steps, result, value, error, module_attrs, file_access, imports_done,
           stray, solo_attrs, solo, overlapped>>

fvars == <<source, fpc, bare, fenced>>

rvars == <<df, config, columns, rpc, out>>

cvars == <<messages, body, sender, status, spc, output, events>>

(***************************************************************************)
(* Characters and text.                                                    *)
(***************************************************************************)
\* the backtick character (a backtick cannot be written in a string literal)
BT  == "BACKTICK"
SP  == " "
TAB == "\t"
NL  == "\n"
CR  == "\r"

FENCE  == <<BT, BT, BT>>
PYTHON == <<"p", "y", "t", "h", "o", "n">>

\* The pieces a response is composed of.
Chunks == { FENCE, <<BT>>, PYTHON, <<"x">>, <<SP>>, <<NL>>, <<CR>> }

\* Number of pieces in a response.
MaxChunks == 5

\* s[i..i+Len(w)-1] = w
HasAt(s, i, w) ==
    /\ i >= 1
    /\ i + Len(w) - 1 <= Len(s)
    /\ SubSeq(s, i, i + Len(w) - 1) = w

\* str.strip(): whitespace characters
IsSpace(c) == c \in {SP, TAB, NL, CR}

\* the regex class [ \t]
IsBlank(c) == c \in {SP, TAB}

RECURSIVE LStrip(_)
LStrip(s) ==
    IF s # <<>> /\ IsSpace(Head(s)) THEN LStrip(Tail(s)) ELSE s

RECURSIVE RStrip(_)
RStrip(s) ==
    IF s # <<>> /\ IsSpace(s[Len(s)]) THEN RStrip(SubSeq(s, 1, Len(s) - 1)) ELSE s

\* str.strip()
strip(s) == RStrip(LStrip(s))

(***************************************************************************)
(* re.search(r"```(?:python)?[ \t]*\r?\n([\s\S]*?)```", response)          *)
(***************************************************************************)
NoMatch == [found |-> FALSE, groups |-> <<>>]

\* [ \t]* is greedy; what follows it (\r or \n) is never a blank, so giving
\* characters back cannot help.
RECURSIVE SkipBlanks(_, _)
SkipBlanks(s, j) ==
    IF j <= Len(s) /\ IsBlank(s[j]) THEN SkipBlanks(s, j + 1) ELSE j

\* \r?\n at k: the index after it, 0 when it does not match
LineBreakEnd(s, k) ==
    IF HasAt(s, k, <<CR, NL>>) THEN k + 2
    ELSE IF HasAt(s, k, <<NL>>) THEN k + 1
    ELSE 0

\* [ \t]*\r?\n at j: the index where group 1 starts, 0 when it does not match
OpenerTail(s, j) == LineBreakEnd(s, SkipBlanks(s, j))

\* ```(?:python)?[ \t]*\r?\n at i: the optional tag is tried first, then
\* the match without it.
OpenerEnd(s, i) ==
    IF ~HasAt(s, i, FENCE) THEN 0
    ELSE LET tagged == IF HasAt(s, i + 3, PYTHON)
                       THEN OpenerTail(s, i + 3 + Len(PYTHON))
                       ELSE 0
         IN  IF tagged # 0 THEN tagged ELSE OpenerTail(s, i + 3)

\* Mutant of FindFence: a greedy group, ([\s\S]*)```, takes the last ```.
RECURSIVE FindLastFence(_, _)
FindLastFence(s, e) ==
    IF e > Len(s) THEN 0
    ELSE LET later == FindLastFence(s, e + 1)
         IN  IF later # 0 THEN later
             ELSE IF HasAt(s, e, FENCE) THEN e
             ELSE 0

\* ([\s\S]*?)``` is lazy: the first ``` at or after e, 0 when there is none
RECURSIVE FindFence(_, _)
FindFence(s, e) ==
    IF e > Len(s) THEN 0
    ELSE IF HasAt(s, e, FENCE) THEN e
    ELSE FindFence(s, e + 1)

\* Mutant of MatchAt: the pattern written without its capturing group.
MatchAtNoGroup(s, i) ==
    LET b == OpenerEnd(s, i)
        e == IF b = 0 THEN 0 ELSE FindFence(s, b)
    IN  IF b # 0 /\ e # 0
        THEN [found |-> TRUE, groups |-> <<>>]
        ELSE NoMatch

\* the pattern matched at start position i
MatchAt(s, i) ==
    LET b == OpenerEnd(s, i)
        e == IF b = 0 THEN 0 ELSE FindFence(s, b)
    IN  IF b # 0 /\ e # 0
        THEN [found |-> TRUE, groups |-> << SubSeq(s, b, e - 1) >>]
        ELSE NoMatch

\* re.search tries the start positions from left to right
RECURSIVE SearchFrom(_, _)
SearchFrom(s, i) ==
    IF i > Len(s) THEN NoMatch
    ELSE LET m == MatchAt(s, i)
         IN  IF m.found THEN m ELSE SearchFrom(s, i + 1)

re_search(s) == SearchFrom(s, 1)

(***************************************************************************)
(* Outcomes of a call: a returned value or a raised exception.             *)
(***************************************************************************)
Returned(v) == [kind |-> "return", value |-> v, exc |-> "none"]
Raised(e)   == [kind |-> "raise", value |-> <<>>, exc |-> e]
Pending     == [kind |-> "pending", value |-> <<>>, exc |-> "none"]

\* Mutant of _extract_code_from_response: the group returned without
\* .strip().
ExtractUnstripped(resp) ==
    LET match == re_search(resp)
    IN  IF match.found
        THEN IF Len(match.groups) >= 1
             THEN Returned(match.groups[1])
             ELSE Raised("IndexError")
        ELSE Returned(strip(resp))

\* match.group(1).strip() if match else response.strip()
_extract_code_from_response(resp) ==
    LET match == re_search(resp)
    IN  IF match.found
        THEN IF Len(match.groups) >= 1
             THEN Returned(strip(match.groups[1]))
             ELSE Raised("IndexError")
        ELSE Returned(strip(resp))

(***************************************************************************)
(* The sandbox executor: the namespaces an execute call builds.            *)
(***************************************************************************)
Calls == {"A", "B"}

EmptyMap == [n \in {} |-> "none"]

\* a dict literal: a later item with the same key replaces an earlier one
RECURSIVE DictLiteral(_)
DictLiteral(items) ==
    IF items = <<>> THEN EmptyMap
    ELSE LET last == items[Len(items)]
         IN  (last[1] :> last[2]) @@ DictLiteral(SubSeq(items, 1, Len(items) - 1))

\* the items of the dict literal under "__builtins__"
BuiltinItems ==
    <<
      <<"__import__", "builtin:__import__">>,
      <<"len", "builtin:len">>,
      <<"range", "builtin:range">>,
      <<"str", "builtin:str">>,
      <<"int", "builtin:int">>,
      <<"float", "builtin:float">>,
      <<"list", "builtin:list">>,
      <<"dict", "builtin:dict">>,
      <<"tuple", "builtin:tuple">>,
      <<"set", "builtin:set">>,
      <<"print", "builtin:print">>,
      <<"sum", "builtin:sum">>,
      <<"max", "builtin:max">>,
      <<"min", "builtin:min">>,
      <<"abs", "builtin:abs">>,
      <<"round", "builtin:round">>,
      <<"enumerate", "builtin:enumerate">>,
      <<"zip", "builtin:zip">>,
      <<"sorted", "builtin:sorted">>,
      <<"any", "builtin:any">>,
      <<"all", "builtin:all">>
    >>

\* Mutant of Builtins: open added to the builtin subset.
BuiltinsWithOpen ==
    DictLiteral(Append(BuiltinItems, <<"open", "builtin:open">>))

\* safe_globals["__builtins__"]
Builtins == DictLiteral(BuiltinItems)

\* safe_globals without its "__builtins__" entry's content, which is the
\* variable builtins
SafeGlobals ==
    DictLiteral(<<
        <<"__builtins__", "dict:builtins">>,
        <<"pd", "module:pandas">>,
        <<"re", "module:re">>,
        <<"datetime", "module:datetime">>,
        <<"date", "class:datetime.date">>,
        <<"datetime", "class:datetime.datetime">>,
        <<"timedelta", "class:datetime.timedelta">>,
        <<"read_sheet_with_custom_header", "function:_read_sheet_with_custom_header">>
    >>)

\* the module objects of the host process carry no attribute set by a source
InitModuleAttrs == {}

Unbound == "<unbound>"

\* Name lookup.  The source's top level runs with safe_globals as globals
\* and local_vars as locals; the body of the entry point runs with its own
\* locals and safe_globals as globals.  Builtins come last.
Resolve(c, n) ==
    LET first == IF pc[c] = "exec" THEN local_vars[c] ELSE fn_locals[c]
    IN  IF n \in DOMAIN first THEN first[n]
        ELSE IF n \in DOMAIN safe_globals[c] THEN safe_globals[c][n]
        ELSE IF n \in DOMAIN builtins[c] THEN builtins[c][n]
        ELSE Unbound

\* every name a reference in the call resolves
VisibleNames(c) ==
    DOMAIN local_vars[c] \cup DOMAIN safe_globals[c] \cup DOMAIN builtins[c]

\* the names the call's source has bound itself
SourceBound(c) ==
    DOMAIN local_vars[c] \cup DOMAIN fn_locals[c]
      \cup (DOMAIN safe_globals[c] \ DOMAIN SafeGlobals)
      \cup (DOMAIN builtins[c] \ DOMAIN Builtins)

InFlight(c) == pc[c] \in {"exec", "call"}

Done(c) == pc[c] \in {"returned", "raised"}

\* statements of the source one call runs
MaxStmts == 3

\* the names the statements of the model use
EntryNames  == {"f", "g"}
RefNames    == {"len", "open", "eval", "x", "os"}
AssignNames == {"x"}
SetBuiltinNames == {"open"}
ImportNames == {"os"}
AttrModules == {"re"}
FileVia     == {"read_sheet_with_custom_header", "pd", "open", "os"}
UnlistedNames == {"open", "eval"}

\* what exec() reports for a source that does not compile: the parser
\* rejects it, or the compiler does after parsing (a return at top level)
CompileErrors == {"invalid-syntax", "return-outside-function"}

\* exceptions: the type, the kind of message and the name the message holds
NoError == [type |-> "none", msg |-> "none", name |-> "none"]
Exc(t, m, n) == [type |-> t, msg |-> m, name |-> n]

\* the names the text of an exception's message holds
NamesInMessage(e) == IF e.name = "none" THEN {} ELSE {e.name}

\* SyntaxError.text: the parser attaches the line it rejected, the compiler
\* attaches nothing
ErrorText(e) ==
    IF e.type = "SyntaxError" /\ e.msg = "invalid-syntax" THEN "line" ELSE "none"

ExecutorIdle ==
    /\ pc = [c \in Calls |-> "idle"]
    /\ function_name = [c \in Calls |-> "f"]
    /\ safe_globals = [c \in Calls |-> EmptyMap]
    /\ builtins = [c \in Calls |-> EmptyMap]
    /\ local_vars = [c \in Calls |-> EmptyMap]
    /\ fn_locals = [c \in Calls |-> EmptyMap]
    /\ steps = [c \in Calls |-> 0]
    /\ result = [c \in Calls |-> "none"]
    /\ value = [c \in Calls |-> "none"]
    /\ error = [c \in Calls |-> NoError]
    /\ module_attrs = InitModuleAttrs
    /\ file_access = "none"
    /\ imports_done = {}
    /\ stray = [c \in Calls |-> "none"]
    /\ solo_attrs = [c \in Calls |-> InitModuleAttrs]
    /\ solo = [c \in Calls |-> NoError]
    /\ overlapped = [c \in Calls |-> FALSE]

\* no source is being compared fenced and bare
FencedIdle ==
    /\ source = <<>>
    /\ fpc = "idle"
    /\ bare = Pending
    /\ fenced = Pending

\* config = {}: a dict with neither "start" nor "end"
NoConfig == [k \in {} |-> 0]

\* outcomes of a read: the returned ReadSheetResult, or the exception with
\* the two lists its message holds
NoResult == [sheet |-> "", columns |-> <<>>, rows |-> <<>>]

ReadPending ==
    [kind |-> "pending", value |-> NoResult, exc |-> "none",
     missing |-> <<>>, available |-> <<>>]

ReadReturned(v) ==
    [kind |-> "return", value |-> v, exc |-> "none",
     missing |-> <<>>, available |-> <<>>]

ReadRaised(e, missing, available) ==
    [kind |-> "raise", value |-> NoResult, exc |-> e,
     missing |-> missing, available |-> available]

\* no sheet is being read; columns = <<>> stands for None and for []
ReaderIdle ==
    /\ df = <<>>
    /\ config = NoConfig
    /\ columns = <<>>
    /\ rpc = "idle"
    /\ out = ReadPending

\* a chat message
Message(role, content) == [role |-> role, content |-> content]

\* ChatMessage.role: Literal["user", "assistant"]
AllowedRoles == {"user", "assistant"}

\* the guardrail function has not returned
NoOutput ==
    [ready |-> FALSE, is_hotel_data_related |-> TRUE, reasoning |-> "none",
     tripwire_triggered |-> FALSE]

\* the frontend session has just started: the history holds the greeting;
\* no request is in progress
ChatIdle ==
    /\ messages = << Message("ai", "Ask me anything about your hotel data") >>
    /\ body = <<>>
    /\ sender = "none"
    /\ status = "none"
    /\ spc = "idle"
    /\ output = NoOutput
    /\ events = <<>>

(***************************************************************************)
(* The sandbox executor: _execute_function_safely_using_exec, one action   *)
(* per step of a call and per statement kind of the source it runs.        *)
(***************************************************************************)
vars == <<xvars, evars, fvars, rvars, cvars>>

\* a step of an execute call leaves everything outside the call alone
xidle == UNCHANGED <<xvars, fvars, rvars, cvars>>

Step(c) == steps' = [steps EXCEPT ![c] = @ + 1]

Fail(c, e) ==
    /\ pc' = [pc EXCEPT ![c] = "raised"]
    /\ error' = [error EXCEPT ![c] = e]

Continue == UNCHANGED <<pc, error>>

Scope(c) == IF pc[c] = "exec" THEN "top" ELSE "body"

\* the observation that the call evaluated name n, unlisted and not bound
\* by the source
StrayAfter(c, n) ==
    IF n \in UnlistedNames /\ n \notin SourceBound(c)
    THEN [stray EXCEPT ![c] = Scope(c)]
    ELSE stray

CanRun(c) == InFlight(c) /\ steps[c] < MaxStmts

\* The call starts: the namespaces are built from the literals, the code is
\* extracted and exec() compiles it.
Begin(c) ==
    /\ pc[c] = "idle"
    /\ \E name \in EntryNames, compiled \in {"ok"} \cup CompileErrors :
         /\ function_name' = [function_name EXCEPT ![c] = name]
         /\ IF compiled = "ok"
            THEN /\ pc' = [pc EXCEPT ![c] = "exec"]
                 /\ UNCHANGED error
            ELSE Fail(c, Exc("SyntaxError", compiled, "none"))
    /\ safe_globals' = [safe_globals EXCEPT ![c] = SafeGlobals]
    /\ builtins' = [builtins EXCEPT ![c] = Builtins]
    /\ local_vars' = [local_vars EXCEPT ![c] = EmptyMap]
    /\ fn_locals' = [fn_locals EXCEPT ![c] = EmptyMap]
    /\ steps' = [steps EXCEPT ![c] = 0]
    /\ result' = [result EXCEPT ![c] = "none"]
    /\ value' = [value EXCEPT ![c] = "none"]
    /\ stray' = [stray EXCEPT ![c] = "none"]
    /\ solo_attrs' = [solo_attrs EXCEPT ![c] = InitModuleAttrs]
    /\ solo' = [solo EXCEPT ![c] = NoError]
    /\ overlapped' = [d \in Calls |->
                        IF d = c THEN \E o \in Calls \ {c} : InFlight(o)
                        ELSE overlapped[d] \/ InFlight(d)]
    /\ UNCHANGED <<module_attrs, file_access, imports_done>>
    /\ xidle

\* top level: def name(): ...
TopDef(c) ==
    /\ pc[c] = "exec"
    /\ CanRun(c)
    /\ local_vars' = [local_vars EXCEPT ![c] = ("f" :> "function:f") @@ @]
    /\ Step(c)
    /\ Continue
    /\ UNCHANGED <<function_name, safe_globals, builtins, fn_locals, result,
                   module_attrs, file_access, imports_done,
                   stray, solo_attrs, solo, overlapped, value>>
    /\ xidle

\* Mutant of TopAssign: the source's statements are not all run before the
\* entry point is called, one runs after the lookup.
TopAssignLate(c) ==
    /\ CanRun(c)
    /\ \E n \in AssignNames :
         local_vars' = [local_vars EXCEPT ![c] = (n :> "int:1") @@ @]
    /\ Step(c)
    /\ Continue
    /\ UNCHANGED <<function_name, safe_globals, builtins, fn_locals, result,
                   module_attrs, file_access, imports_done,
                   stray, solo_attrs, solo, overlapped, value>>
    /\ xidle

\* top level: name = 1
TopAssign(c) ==
    /\ pc[c] = "exec"
    /\ CanRun(c)
    /\ \E n \in AssignNames :
         local_vars' = [local_vars EXCEPT ![c] = (n :> "int:1") @@ @]
    /\ Step(c)
    /\ Continue
    /\ UNCHANGED <<function_name, safe_globals, builtins, fn_locals, result,
                   module_attrs, file_access, imports_done,
                   stray, solo_attrs, solo, overlapped, value>>
    /\ xidle

\* global name; name = 1
GlobalAssign(c) ==
    /\ CanRun(c)
    /\ \E n \in AssignNames :
         safe_globals' = [safe_globals EXCEPT ![c] = (n :> "int:1") @@ @]
    /\ Step(c)
    /\ Continue
    /\ UNCHANGED <<function_name, builtins, local_vars, fn_locals, result,
                   module_attrs, file_access, imports_done,
                   stray, solo_attrs, solo, overlapped, value>>
    /\ xidle

\* __builtins__[name] = 1
SetBuiltin(c) ==
    /\ CanRun(c)
    /\ Resolve(c, "__builtins__") = "dict:builtins"
    /\ \E n \in SetBuiltinNames :
         builtins' = [builtins EXCEPT ![c] = (n :> "int:1") @@ @]
    /\ Step(c)
    /\ Continue
    /\ UNCHANGED <<function_name, safe_globals, local_vars, fn_locals, result,
                   module_attrs, file_access, imports_done,
                   stray, solo_attrs, solo, overlapped, value>>
    /\ xidle

\* import name: the statement calls the builtin __import__ and binds the
\* module in the running scope's locals
Import(c) ==
    /\ CanRun(c)
    /\ \E m \in ImportNames :
         IF "__import__" \in DOMAIN builtins[c]
         THEN /\ IF pc[c] = "exec"
                 THEN /\ local_vars' = [local_vars EXCEPT ![c] = (m :> "module:" \o m) @@ @]
                      /\ UNCHANGED fn_locals
                 ELSE /\ fn_locals' = [fn_locals EXCEPT ![c] = (m :> "module:" \o m) @@ @]
                      /\ UNCHANGED local_vars
              /\ imports_done' = imports_done \cup {m}
              /\ Continue
         ELSE /\ Fail(c, Exc("ImportError", "__import__-not-found", m))
              /\ UNCHANGED <<local_vars, fn_locals, imports_done>>
    /\ Step(c)
    /\ UNCHANGED <<function_name, safe_globals, builtins, result,
                   module_attrs, file_access,
                   stray, solo_attrs, solo, overlapped, value>>
    /\ xidle

\* an expression that evaluates name
Ref(c) ==
    /\ CanRun(c)
    /\ \E n \in RefNames :
         /\ IF Resolve(c, n) = Unbound
            THEN Fail(c, Exc("NameError", "name-not-defined", n))
            ELSE Continue
         /\ stray' = StrayAfter(c, n)
    /\ Step(c)
    /\ UNCHANGED <<function_name, safe_globals, builtins, local_vars, fn_locals,
                   result, module_attrs, file_access, imports_done,
                   solo_attrs, solo, overlapped, value>>
    /\ xidle

\* module.leak = 1, on a library handle of the whitelist
SetAttr(c) ==
    /\ CanRun(c)
    /\ \E h \in AttrModules :
         IF Resolve(c, h) = Unbound
         THEN /\ Fail(c, Exc("NameError", "name-not-defined", h))
              /\ UNCHANGED <<module_attrs, solo_attrs>>
         ELSE /\ module_attrs' = module_attrs \cup {<<Resolve(c, h), "leak">>}
              /\ solo_attrs' = [solo_attrs EXCEPT ![c] = @ \cup {<<Resolve(c, h), "leak">>}]
              /\ Continue
    /\ Step(c)
    /\ UNCHANGED <<function_name, safe_globals, builtins, local_vars, fn_locals,
                   result, file_access, imports_done, stray, solo, overlapped, value>>
    /\ xidle

\* an expression that evaluates module.leak; run alone, the call finds only
\* the attributes it set itself
GetAttr(c) ==
    /\ CanRun(c)
    /\ \E h \in AttrModules :
         IF Resolve(c, h) = Unbound
         THEN /\ Fail(c, Exc("NameError", "name-not-defined", h))
              /\ UNCHANGED solo
         ELSE IF <<Resolve(c, h), "leak">> \in module_attrs
         THEN /\ Continue
              /\ solo' = [solo EXCEPT ![c] =
                            IF <<Resolve(c, h), "leak">> \in solo_attrs[c] \/ @ # NoError
                            THEN @
                            ELSE Exc("AttributeError", "no-attribute", "leak")]
         ELSE /\ Fail(c, Exc("AttributeError", "no-attribute", "leak"))
              /\ UNCHANGED solo
    /\ Step(c)
    /\ UNCHANGED <<function_name, safe_globals, builtins, local_vars, fn_locals,
                   result, module_attrs, file_access, imports_done,
                   stray, solo_attrs, overlapped, value>>
    /\ xidle

\* a file opened by its path through a name: the sheet reader handle,
\* pd.read_excel(path), open(path), os.open(path)
ReadFile(c) ==
    /\ CanRun(c)
    /\ \E via \in FileVia :
         /\ IF Resolve(c, via) = Unbound
            THEN /\ Fail(c, Exc("NameError", "name-not-defined", via))
                 /\ UNCHANGED file_access
            ELSE /\ file_access' = via
                 /\ Continue
         /\ stray' = StrayAfter(c, via)
    /\ Step(c)
    /\ UNCHANGED <<function_name, safe_globals, builtins, local_vars, fn_locals,
                   result, module_attrs, imports_done,
                   solo_attrs, solo, overlapped, value>>
    /\ xidle

\* a statement that fails at run time, such as a division by zero
RuntimeFailure(c) ==
    /\ CanRun(c)
    /\ Fail(c, Exc("ZeroDivisionError", "division-by-zero", "none"))
    /\ Step(c)
    /\ UNCHANGED <<function_name, safe_globals, builtins, local_vars, fn_locals,
                   result, module_attrs, file_access, imports_done,
                   stray, solo_attrs, solo, overlapped, value>>
    /\ xidle

\* Mutant of Lookup: the membership test left out, so that a missing entry
\* point fails in local_vars[function_name] itself.
LookupKeyError(c) ==
    /\ pc[c] = "exec"
    /\ IF function_name[c] \notin DOMAIN local_vars[c]
       THEN Fail(c, Exc("KeyError", "key", function_name[c]))
       ELSE /\ pc' = [pc EXCEPT ![c] = "call"]
            /\ UNCHANGED error
    /\ UNCHANGED <<function_name, safe_globals, builtins, local_vars, fn_locals,
                   steps, result, module_attrs, file_access, imports_done,
                   stray, solo_attrs, solo, overlapped, value>>
    /\ xidle

\* The source has run: the entry point is looked up in local_vars and
\* called.
Lookup(c) ==
    /\ pc[c] = "exec"
    /\ IF function_name[c] \notin DOMAIN local_vars[c]
       THEN Fail(c, Exc("NameError", "function-not-found", function_name[c]))
       ELSE /\ pc' = [pc EXCEPT ![c] = "call"]
            /\ UNCHANGED error
    /\ UNCHANGED <<function_name, safe_globals, builtins, local_vars, fn_locals,
                   steps, result, module_attrs, file_access, imports_done,
                   stray, solo_attrs, solo, overlapped, value>>
    /\ xidle

\* return 6, or the end of the body (None): the entry point's value is
\* bound to result and result is returned
ReturnConst(c) ==
    /\ pc[c] = "call"
    /\ \E v \in {"int:6", "None"} :
         /\ value' = [value EXCEPT ![c] = v]
         /\ result' = [result EXCEPT ![c] = v]
    /\ pc' = [pc EXCEPT ![c] = "returned"]
    /\ UNCHANGED <<function_name, safe_globals, builtins, local_vars, fn_locals,
                   steps, error, module_attrs, file_access, imports_done,
                   stray, solo_attrs, solo, overlapped>>
    /\ xidle

\* return name
ReturnName(c) ==
    /\ pc[c] = "call"
    /\ \E n \in RefNames :
         /\ IF Resolve(c, n) = Unbound
            THEN /\ Fail(c, Exc("NameError", "name-not-defined", n))
                 /\ UNCHANGED <<result, value>>
            ELSE /\ value' = [value EXCEPT ![c] = Resolve(c, n)]
                 /\ result' = [result EXCEPT ![c] = Resolve(c, n)]
                 /\ pc' = [pc EXCEPT ![c] = "returned"]
                 /\ UNCHANGED error
         /\ stray' = StrayAfter(c, n)
    /\ UNCHANGED <<function_name, safe_globals, builtins, local_vars, fn_locals,
                   steps, module_attrs, file_access, imports_done,
                   solo_attrs, solo, overlapped>>
    /\ xidle

\* The call is over: its namespaces are discarded.
Finish(c) ==
    /\ Done(c)
    /\ pc' = [pc EXCEPT ![c] = "idle"]
    /\ function_name' = [function_name EXCEPT ![c] = "f"]
    /\ safe_globals' = [safe_globals EXCEPT ![c] = EmptyMap]
    /\ builtins' = [builtins EXCEPT ![c] = EmptyMap]
    /\ local_vars' = [local_vars EXCEPT ![c] = EmptyMap]
    /\ fn_locals' = [fn_locals EXCEPT ![c] = EmptyMap]
    /\ steps' = [steps EXCEPT ![c] = 0]
    /\ result' = [result EXCEPT ![c] = "none"]
    /\ value' = [value EXCEPT ![c] = "none"]
    /\ error' = [error EXCEPT ![c] = NoError]
    /\ stray' = [stray EXCEPT ![c] = "none"]
    /\ solo_attrs' = [solo_attrs EXCEPT ![c] = InitModuleAttrs]
    /\ solo' = [solo EXCEPT ![c] = NoError]
    /\ overlapped' = [overlapped EXCEPT ![c] = FALSE]
    /\ UNCHANGED <<module_attrs, file_access, imports_done>>
    /\ xidle

Init ==
    /\ ExecutorIdle
    /\ ChatIdle
    /\ FencedIdle
    /\ ReaderIdle
    /\ response = <<>>
    /\ xpc = "idle"
    /\ code = Pending
    /\ again = Pending
    /\ nchunks = 0

\* The tool is a synchronous function: a call starts when no other call is
\* in progress.
BeginNext(c) ==
    /\ \A o \in Calls \ {c} : pc[o] = "idle"
    /\ Begin(c)

Next ==
    \E c \in Calls :
        \/ BeginNext(c)
        \/ TopDef(c)
        \/ TopAssign(c)
        \/ GlobalAssign(c)
        \/ SetBuiltin(c)
        \/ Import(c)
        \/ Ref(c)
        \/ SetAttr(c)
        \/ GetAttr(c)
        \/ ReadFile(c)
        \/ RuntimeFailure(c)
        \/ Lookup(c)
        \/ ReturnConst(c)
        \/ ReturnName(c)
        \/ Finish(c)

Spec == Init /\ [][Next]_vars

\* Two calls in progress at the same time, as when two chat sessions invoke
\* the tool from different threads: their statements interleave.
NextConcurrent ==
    \E c \in Calls :
        \/ Begin(c)
        \/ TopDef(c)
        \/ GlobalAssign(c)
        \/ SetBuiltin(c)
        \/ SetAttr(c)
        \/ GetAttr(c)
        \/ Lookup(c)
        \/ ReturnConst(c)
        \/ ReturnName(c)
        \/ Finish(c)

SpecConcurrent == Init /\ [][NextConcurrent]_vars

(***************************************************************************)
(* Sources with a statement that never ends, such as while True: pass.     *)
(* exec() and the call of the entry point are plain calls: nothing bounds  *)
(* the time they take.                                                     *)
(***************************************************************************)
Looping(c) == pc[c] \in {"exec-loop", "call-loop"}

\* the call reaches a statement that never ends, at top level or in the
\* body of the entry point
LoopForever(c) ==
    /\ CanRun(c)
    /\ pc' = [pc EXCEPT ![c] = IF pc[c] = "exec" THEN "exec-loop" ELSE "call-loop"]
    /\ Step(c)
    /\ UNCHANGED <<function_name, safe_globals, builtins, local_vars, fn_locals,
                   result, error, module_attrs, file_access, imports_done,
                   stray, solo_attrs, solo, overlapped, value>>
    /\ xidle

\* Mutant of Spin: a watchdog ends the statement with a TimeoutError.
SpinTimeout(c) ==
    /\ Looping(c)
    /\ Fail(c, Exc("TimeoutError", "timeout", "none"))
    /\ UNCHANGED <<function_name, safe_globals, builtins, local_vars, fn_locals,
                   steps, result, module_attrs, file_access, imports_done,
                   stray, solo_attrs, solo, overlapped, value>>
    /\ xidle

\* one more turn of the loop: the call is where it was
Spin(c) ==
    /\ Looping(c)
    /\ UNCHANGED evars
    /\ xidle

NextLoop ==
    \E c \in Calls :
        \/ BeginNext(c)
        \/ TopDef(c)
        \/ Ref(c)
        \/ RuntimeFailure(c)
        \/ LoopForever(c)
        \/ Spin(c)
        \/ Lookup(c)
        \/ ReturnConst(c)
        \/ Finish(c)

\* The interpreter keeps running the call: a step that can be taken is
\* taken.
SpecLoop == Init /\ [][NextLoop]_vars /\ WF_vars(NextLoop)

(***************************************************************************)
(* The executor of trials/agent_with_code_execution_ft.py: a smaller       *)
(* namespace, the exec, the lookup and the call inside a try block, and a  *)
(* string returned in every case.                                          *)
(***************************************************************************)
TrialBuiltinItems ==
    <<
      <<"__import__", "builtin:__import__">>,
      <<"len", "builtin:len">>,
      <<"range", "builtin:range">>,
      <<"str", "builtin:str">>,
      <<"int", "builtin:int">>,
      <<"float", "builtin:float">>,
      <<"list", "builtin:list">>,
      <<"dict", "builtin:dict">>,
      <<"print", "builtin:print">>,
      <<"sum", "builtin:sum">>
    >>

TrialBuiltins == DictLiteral(TrialBuiltinItems)

TrialSafeGlobals == DictLiteral(<< <<"__builtins__", "dict:builtins">> >>)

\* str(v)
Str(v) ==
    CASE v = "int:6" -> "str:6"
      [] v = "int:1" -> "str:1"
      [] v = "None"  -> "str:None"
      [] OTHER       -> "str:<" \o v \o ">"

\* The trial call starts: the namespaces are built, the code is extracted
\* and, inside the try block, exec() compiles it.
TrialBegin(c) ==
    /\ \A o \in Calls \ {c} : pc[o] = "idle"
    /\ pc[c] = "idle"
    /\ \E name \in EntryNames, compiled \in {"ok"} \cup CompileErrors :
         /\ function_name' = [function_name EXCEPT ![c] = name]
         /\ IF compiled = "ok"
            THEN /\ pc' = [pc EXCEPT ![c] = "exec"]
                 /\ UNCHANGED error
            ELSE Fail(c, Exc("SyntaxError", compiled, "none"))
    /\ safe_globals' = [safe_globals EXCEPT ![c] = TrialSafeGlobals]
    /\ builtins' = [builtins EXCEPT ![c] = TrialBuiltins]
    /\ local_vars' = [local_vars EXCEPT ![c] = EmptyMap]
    /\ fn_locals' = [fn_locals EXCEPT ![c] = EmptyMap]
    /\ steps' = [steps EXCEPT ![c] = 0]
    /\ result' = [result EXCEPT ![c] = "none"]
    /\ value' = [value EXCEPT ![c] = "none"]
    /\ UNCHANGED <<module_attrs, file_access, imports_done,
                   stray, solo_attrs, solo, overlapped>>
    /\ xidle

\* result = local_vars[function_name](); return str(result)
TrialReturnConst(c) ==
    /\ pc[c] = "call"
    /\ \E v \in {"int:6", "None"} :
         /\ value' = [value EXCEPT ![c] = v]
         /\ result' = [result EXCEPT ![c] = Str(v)]
    /\ pc' = [pc EXCEPT ![c] = "returned"]
    /\ UNCHANGED <<function_name, safe_globals, builtins, local_vars, fn_locals,
                   steps, error, module_attrs, file_access, imports_done,
                   stray, solo_attrs, solo, overlapped>>
    /\ xidle

\* the entry point ends in return name
TrialReturnName(c) ==
    /\ pc[c] = "call"
    /\ \E n \in RefNames :
         IF Resolve(c, n) = Unbound
         THEN /\ Fail(c, Exc("NameError", "name-not-defined", n))
              /\ UNCHANGED <<result, value>>
         ELSE /\ value' = [value EXCEPT ![c] = Resolve(c, n)]
              /\ result' = [result EXCEPT ![c] = Str(Resolve(c, n))]
              /\ pc' = [pc EXCEPT ![c] = "returned"]
              /\ UNCHANGED error
    /\ UNCHANGED <<function_name, safe_globals, builtins, local_vars, fn_locals,
                   steps, module_attrs, file_access, imports_done,
                   stray, solo_attrs, solo, overlapped>>
    /\ xidle

\* except Exception as e: return f"Error during execution: {str(e)}".  The
\* exception raised inside the try block stays recorded in error.
TrialExcept(c) ==
    /\ pc[c] = "raised"
    /\ pc' = [pc EXCEPT ![c] = "returned"]
    /\ result' = [result EXCEPT ![c] =
                     "str:Error during execution: " \o error[c].msg]
    /\ UNCHANGED <<function_name, safe_globals, builtins, local_vars, fn_locals,
                   steps, error, module_attrs, file_access, imports_done,
                   stray, solo_attrs, solo, overlapped, value>>
    /\ xidle

\* The trial call is over; it always ends by returning.
TrialFinish(c) ==
    /\ pc[c] = "returned"
    /\ Finish(c)

NextTrial ==
    \E c \in Calls :
        \/ TrialBegin(c)
        \/ TopDef(c)
        \/ TopAssign(c)
        \/ Ref(c)
        \/ RuntimeFailure(c)
        \/ Lookup(c)
        \/ TrialReturnConst(c)
        \/ TrialReturnName(c)
        \/ TrialExcept(c)
        \/ TrialFinish(c)

SpecTrial == Init /\ [][NextTrial]_vars

(***************************************************************************)
(* execute() as a function of the text it is given, for sources written    *)
(* in a small part of Python: a line is blank, a comment, or a one-line    *)
(* definition of f, with a comment allowed after it.  HEAD stands for the  *)
(* run of characters it spells.                                            *)
(***************************************************************************)
HEAD == "def f(): return "
SIX  == "6"
QT   == "'"
HASH == "#"

\* def f(): return 6
DefInt == <<HEAD, SIX>>

\* def f(): return '```'
DefStr == <<HEAD, QT>> \o FENCE \o <<QT>>

\* #```
Comment == <<HASH>> \o FENCE

Pieces == { DefInt, DefStr, Comment, <<NL>> }

\* characters of the source S
MaxSource == 12

\* str.split("\n"): the lines of a text
RECURSIVE SplitLines(_)
SplitLines(s) ==
    IF \A j \in 1..Len(s) : s[j] # NL THEN << s >>
    ELSE LET k == CHOOSE j \in 1..Len(s) :
                    s[j] = NL /\ \A i \in 1..(j - 1) : s[i] # NL
         IN  << SubSeq(s, 1, k - 1) >> \o SplitLines(SubSeq(s, k + 1, Len(s)))

\* what follows a complete statement on its line: nothing or a comment
EndsLine(l, k) == k > Len(l) \/ l[k] = HASH

BadLine    == [ok |-> FALSE, binds |-> FALSE, value |-> <<>>]
EmptyLine  == [ok |-> TRUE, binds |-> FALSE, value |-> <<>>]
Binds(v)   == [ok |-> TRUE, binds |-> TRUE, value |-> v]

\* The compiler on one line: whether it is valid, and what calling the f it
\* defines returns.
ParseLine(l) ==
    IF l = <<>> \/ l[1] = HASH THEN EmptyLine
    ELSE IF l[1] # HEAD THEN BadLine
    ELSE IF EndsLine(l, 2) THEN Binds(<<"None">>)
    ELSE IF l[2] = SIX
         THEN IF EndsLine(l, 3) THEN Binds(<<"int", SIX>>) ELSE BadLine
    ELSE IF l[2] = QT
         THEN IF \E k \in 3..Len(l) : l[k] = QT
              THEN LET k == CHOOSE k \in 3..Len(l) :
                              l[k] = QT /\ \A i \in 3..(k - 1) : l[i] # QT
                   IN  IF EndsLine(l, k + 1)
                       THEN Binds(<<"str">> \o SubSeq(l, 3, k - 1))
                       ELSE BadLine
              ELSE BadLine
    ELSE BadLine

\* exec(code, safe_globals, local_vars), the lookup of the entry point in
\* local_vars and its call: the source is compiled whole before any of it
\* runs, and a later definition of f replaces an earlier one.
run(text, name) ==
    LET lines  == SplitLines(text)
        parsed == [i \in 1..Len(lines) |-> ParseLine(lines[i])]
        defs   == {i \in 1..Len(lines) : parsed[i].binds}
    IN  IF \E i \in 1..Len(lines) : ~parsed[i].ok
        THEN Raised("SyntaxError")
        ELSE IF name # "f" \/ defs = {}
        THEN Raised("NameError: Function not found")
        ELSE Returned(parsed[CHOOSE i \in defs : \A j \in defs : j <= i].value)

\* _execute_function_safely_using_exec(func_string, function_name)
execute(func_string, name) ==
    LET extracted == _extract_code_from_response(func_string)
    IN  IF extracted.kind = "return"
        THEN run(extracted.value, name)
        ELSE extracted

\* "```python\n" + S + "\n```"
Fence(S) == FENCE \o PYTHON \o <<NL>> \o S \o <<NL>> \o FENCE

InitFenced ==
    /\ source = <<>>
    /\ fpc = "compose"
    /\ bare = Pending
    /\ fenced = Pending
    /\ ExecutorIdle
    /\ ChatIdle
    /\ ReaderIdle
    /\ response = <<>>
    /\ xpc = "idle"
    /\ code = Pending
    /\ again = Pending
    /\ nchunks = 0

WritePiece ==
    /\ fpc = "compose"
    /\ \E p \in Pieces :
         /\ Len(source) + Len(p) <= MaxSource
         /\ source' = source \o p
    /\ UNCHANGED <<fpc, bare, fenced>>
    /\ UNCHANGED <<xvars, evars, rvars, cvars>>

\* the source is executed bare and in a python-tagged fence, entry point f
ExecuteBoth ==
    /\ fpc = "compose"
    /\ bare' = execute(source, "f")
    /\ fenced' = execute(Fence(source), "f")
    /\ fpc' = "done"
    /\ UNCHANGED source
    /\ UNCHANGED <<xvars, evars, rvars, cvars>>

NextFenced ==
    \/ WritePiece
    \/ ExecuteBoth

SpecFenced == InitFenced /\ [][NextFenced]_vars

(***************************************************************************)
(* The sheet reader: _read_sheet_with_custom_header of                     *)
(* backend/helpers/excel_file_reader.py.  df is the frame that             *)
(* pd.read_excel(..., header=None) returns: a sequence of rows, row k of   *)
(* the sheet at df[k + 1], each row a sequence of cells, each cell a text. *)
(***************************************************************************)
\* str.lower() on the letters of the model
LowerOf(ch) ==
    CASE ch = "A" -> "a"
      [] ch = "B" -> "b"
      [] ch = "R" -> "r"
      [] OTHER    -> ch

lower(s) == [j \in 1..Len(s) |-> LowerOf(s[j])]

\* str.replace(old, new) for a one-character old
RECURSIVE replace(_, _, _)
replace(s, old, new) ==
    IF s = <<>> THEN <<>>
    ELSE (IF Head(s) = old THEN new ELSE << Head(s) >>)
           \o replace(Tail(s), old, new)

\* str(col): the header cells of the model are text already
str(col) == col

\* normalize(col): str(col).strip().lower()
normalize(col) == lower(strip(str(col)))

\* str(col).strip().replace("\n", " ").replace("\r", "").replace("\t", " ")
\*         .lower()
sanitise(col) ==
    lower(replace(replace(replace(strip(str(col)), NL, <<SP>>), CR, <<>>),
                  TAB, <<SP>>))

\* dict.get(key, default)
get(d, k, default) == IF k \in DOMAIN d THEN d[k] ELSE default

Min(a, b) == IF a <= b THEN a ELSE b

\* df.iloc[a:b] for a, b >= 0: rows a to b - 1, as many as there are
iloc_slice(d, a, b) == SubSeq(d, a + 1, Min(b, Len(d)))

\* Mutant of data_rows: the slice written with end_row as its exclusive end.
DataRowsExclusive(d, cfg) ==
    IF "end" \in DOMAIN cfg
    THEN iloc_slice(d, get(cfg, "start", 0) + 1, cfg["end"])
    ELSE iloc_slice(d, get(cfg, "start", 0) + 1, Len(d))

\* df.iloc[start_row + 1 : end_row + 1] if end_row is not None
\* else df.iloc[start_row + 1 :]
data_rows(d, cfg) ==
    IF "end" \in DOMAIN cfg
    THEN iloc_slice(d, get(cfg, "start", 0) + 1, cfg["end"] + 1)
    ELSE iloc_slice(d, get(cfg, "start", 0) + 1, Len(d))

\* the elements of a sequence
Range(s) == { s[i] : i \in 1..Len(s) }

\* list(d.keys()) of a dict built from the items s: the distinct keys in
\* the order of their first insertion
RECURSIVE KeysInOrder(_)
KeysInOrder(s) ==
    IF s = <<>> THEN <<>>
    ELSE LET before == KeysInOrder(SubSeq(s, 1, Len(s) - 1))
         IN  IF s[Len(s)] \in Range(before) THEN before
             ELSE Append(before, s[Len(s)])

\* actual_header_map[key]: the last header cell that normalizes to key
HeaderFor(header_row, key) ==
    header_row[CHOOSE j \in 1..Len(header_row) :
                   /\ normalize(header_row[j]) = key
                   /\ \A j2 \in (j + 1)..Len(header_row) :
                        normalize(header_row[j2]) # key]

\* the positions of the columns whose label is the given one
RECURSIVE Labelled(_, _, _)
Labelled(header_row, label, j) ==
    IF j > Len(header_row) THEN <<>>
    ELSE (IF header_row[j] = label THEN << j >> ELSE <<>>)
           \o Labelled(header_row, label, j + 1)

\* Mutant of SelectColumns: the columns kept in the order of the header row.
SelectInHeaderOrder(header_row, selected_cols) ==
    LET Kept(j) == header_row[j] \in Range(selected_cols)
    IN  SelectSeq([j \in 1..Len(header_row) |-> j], Kept)

\* data_df[selected_cols]: for each label in turn, every column that
\* carries it
RECURSIVE SelectColumns(_, _)
SelectColumns(header_row, selected_cols) ==
    IF selected_cols = <<>> THEN <<>>
    ELSE Labelled(header_row, Head(selected_cols), 1)
           \o SelectColumns(header_row, Tail(selected_cols))

\* the returned dict, the frame's columns being those at the positions picked
Result(header_row, data, picked) ==
    LET sanitised_cols == [i \in 1..Len(picked) |-> sanitise(header_row[picked[i]])]
    IN  [sheet   |-> "sheet",
         columns |-> sanitised_cols,
         rows    |-> [r \in 1..Len(data) |->
                        DictLiteral([i \in 1..Len(picked) |->
                                       << sanitised_cols[i], data[r][picked[i]] >>])]]

_read_sheet_with_custom_header(d, cfg, cols) ==
    LET start_row == get(cfg, "start", 0)
    IN  IF start_row >= Len(d)
        THEN ReadRaised("IndexError", <<>>, <<>>)
        ELSE
        LET header_row == d[start_row + 1]
            data       == data_rows(d, cfg)
            every      == [j \in 1..Len(header_row) |-> j]
            keys       == KeysInOrder([j \in 1..Len(header_row) |->
                                         normalize(header_row[j])])
            requested_normalized == [i \in 1..Len(cols) |-> normalize(cols[i])]
            Absent(col) == col # <<>> /\ col \notin Range(keys)
            missing    == SelectSeq(requested_normalized, Absent)
        IN  IF cols = <<>>
            THEN ReadReturned(Result(header_row, data, every))
            ELSE IF missing # <<>>
            THEN ReadRaised("ValueError", missing, keys)
            ELSE IF \E i \in 1..Len(cols) :
                       requested_normalized[i] \notin Range(keys)
            THEN ReadRaised("KeyError", <<>>, <<>>)
            ELSE ReadReturned(Result(header_row, data,
                     SelectColumns(header_row,
                         [i \in 1..Len(cols) |->
                            HeaderFor(header_row, requested_normalized[i])])))

\* The tool is called with the composed arguments.
Read ==
    /\ rpc = "compose"
    /\ out' = _read_sheet_with_custom_header(df, config, columns)
    /\ rpc' = "read"
    /\ UNCHANGED <<df, config, columns>>
    /\ UNCHANGED <<xvars, evars, fvars, cvars>>

(***************************************************************************)
(* The reader on sheets of up to MaxRows rows, with every config.          *)
(***************************************************************************)
MaxRows == 6

Digit(k) == <<"0", "1", "2", "3", "4", "5", "6", "7", "8", "9">>[k + 1]

\* row k of the sheet: two cells that tell the row and the column
RowAt(k) == << <<"R", Digit(k), "A">>, <<"R", Digit(k), "B">> >>

\* config dicts: start and end present or not, indexes up to one past the
\* largest sheet
Configs == UNION { [D -> 0..MaxRows] : D \in SUBSET {"start", "end"} }

InitReadRows ==
    /\ df = <<>>
    /\ config = NoConfig
    /\ columns = <<>>
    /\ rpc = "compose"
    /\ out = ReadPending
    /\ ExecutorIdle
    /\ ChatIdle
    /\ FencedIdle
    /\ response = <<>>
    /\ xpc = "idle"
    /\ code = Pending
    /\ again = Pending
    /\ nchunks = 0

AddRow ==
    /\ rpc = "compose"
    /\ Len(df) < MaxRows
    /\ df' = Append(df, RowAt(Len(df)))
    /\ UNCHANGED <<config, columns, rpc, out>>
    /\ UNCHANGED <<xvars, evars, fvars, cvars>>

Configure ==
    /\ rpc = "compose"
    /\ config = NoConfig
    /\ \E cfg \in Configs : config' = cfg
    /\ UNCHANGED <<df, columns, rpc, out>>
    /\ UNCHANGED <<xvars, evars, fvars, cvars>>

NextReadRows ==
    \/ AddRow
    \/ Configure
    \/ Read

SpecReadRows == InitReadRows /\ [][NextReadRows]_vars

(***************************************************************************)
(* The reader on a sheet of a header row and one data row, with every      *)
(* text in the first header cell and in the requested column name.         *)
(***************************************************************************)
CellChars == {"A", SP, NL, CR, TAB}

\* characters of the first header cell and of the requested name together
MaxText == 6

InitReadColumns ==
    /\ df = << << <<>>, <<"B">> >>, << <<"1">>, <<"2">> >> >>
    /\ config = [k \in {"start"} |-> 0]
    /\ columns = <<>>
    /\ rpc = "compose"
    /\ out = ReadPending
    /\ ExecutorIdle
    /\ ChatIdle
    /\ FencedIdle
    /\ response = <<>>
    /\ xpc = "idle"
    /\ code = Pending
    /\ again = Pending
    /\ nchunks = 0

\* the characters written so far
Written == Len(df[1][1]) + (IF columns = <<>> THEN 0 ELSE Len(columns[1]))

\* a character more in the first header cell of the sheet
TypeHeader ==
    /\ rpc = "compose"
    /\ Written < MaxText
    /\ \E ch \in CellChars : df' = [df EXCEPT ![1][1] = Append(@, ch)]
    /\ UNCHANGED <<config, columns, rpc, out>>
    /\ UNCHANGED <<xvars, evars, fvars, cvars>>

\* columns is given: a list of one name, still blank
Request ==
    /\ rpc = "compose"
    /\ columns = <<>>
    /\ columns' = << <<>> >>
    /\ UNCHANGED <<df, config, rpc, out>>
    /\ UNCHANGED <<xvars, evars, fvars, cvars>>

\* a character more in the requested name
TypeRequest ==
    /\ rpc = "compose"
    /\ columns # <<>>
    /\ Written < MaxText
    /\ \E ch \in CellChars : columns' = [columns EXCEPT ![1] = Append(@, ch)]
    /\ UNCHANGED <<df, config, rpc, out>>
    /\ UNCHANGED <<xvars, evars, fvars, cvars>>

NextReadColumns ==
    \/ TypeHeader
    \/ Request
    \/ TypeRequest
    \/ Read

SpecReadColumns == InitReadColumns /\ [][NextReadColumns]_vars

(***************************************************************************)
(* The reader on a sheet of a header row and one data row of up to MaxCols *)
(* columns, header cells that normalize alike or are the same label        *)
(* included, with requests of up to MaxRequested names in every order.     *)
(***************************************************************************)
MaxCols == 3

MaxRequested == 2

\* header cells: "A" and "A " normalize to the same name
HeaderCells == { <<"A">>, <<"A", SP>>, <<"B">> }

\* names the caller asks for
RequestNames == { <<"a">>, <<"B">> }

InitReadProject ==
    /\ df = << <<>>, <<>> >>
    /\ config = NoConfig
    /\ columns = <<>>
    /\ rpc = "compose"
    /\ out = ReadPending
    /\ ExecutorIdle
    /\ ChatIdle
    /\ FencedIdle
    /\ response = <<>>
    /\ xpc = "idle"
    /\ code = Pending
    /\ again = Pending
    /\ nchunks = 0

\* a column more in the sheet: a header cell and the data cell under it
AddColumn ==
    /\ rpc = "compose"
    /\ Len(df[1]) < MaxCols
    /\ \E h \in HeaderCells :
         df' = << Append(df[1], h), Append(df[2], << Digit(Len(df[1]) + 1) >>) >>
    /\ UNCHANGED <<config, columns, rpc, out>>
    /\ UNCHANGED <<xvars, evars, fvars, cvars>>

\* a name more in the columns argument
AddRequested ==
    /\ rpc = "compose"
    /\ Len(columns) < MaxRequested
    /\ \E name \in RequestNames : columns' = Append(columns, name)
    /\ UNCHANGED <<df, config, rpc, out>>
    /\ UNCHANGED <<xvars, evars, fvars, cvars>>

NextReadProject ==
    \/ AddColumn
    \/ AddRequested
    \/ Read

SpecReadProject == InitReadProject /\ [][NextReadProject]_vars

(***************************************************************************)
(* The extractor applied to every response of up to MaxChunks pieces.      *)
(***************************************************************************)
InitExtract ==
    /\ response = <<>>
    /\ xpc = "compose"
    /\ code = Pending
    /\ again = Pending
    /\ nchunks = 0
    /\ ExecutorIdle
    /\ ChatIdle
    /\ FencedIdle
    /\ ReaderIdle

TypeChunk ==
    /\ xpc = "compose"
    /\ nchunks < MaxChunks
    /\ \E c \in Chunks : response' = response \o c
    /\ nchunks' = nchunks + 1
    /\ UNCHANGED <<xpc, code, again>>
    /\ UNCHANGED <<evars, fvars, rvars, cvars>>

Extract ==
    /\ xpc = "compose"
    /\ code' = _extract_code_from_response(response)
    /\ xpc' = "extracted"
    /\ UNCHANGED <<response, again, nchunks>>
    /\ UNCHANGED <<evars, fvars, rvars, cvars>>

ExtractAgain ==
    /\ xpc = "extracted"
    /\ code.kind = "return"
    /\ again' = _extract_code_from_response(code.value)
    /\ xpc' = "again"
    /\ UNCHANGED <<response, code, nchunks>>
    /\ UNCHANGED <<evars, fvars, rvars, cvars>>

NextExtract ==
    \/ TypeChunk
    \/ Extract
    \/ ExtractAgain

SpecExtract == InitExtract /\ [][NextExtract]_vars

(***************************************************************************)
(* The chat: the frontend posts its history to /api/v1/chat, the endpoint  *)
(* validates the request and answers with the stream of                    *)
(* agent_response_stream, in which the guardrail and the main agent run.   *)
(* Any other client of the API posts bodies of up to MaxBody messages.     *)
(***************************************************************************)
MaxMessages == 4

MaxBody == 2

MaxTexts == 2

DefaultReasoning == "Your question is not related to hotel data analysis."

\* the events of a response stream
Text == [kind |-> "text", text |-> "answer"]
Rejection == [kind |-> "rejection", text |-> "rejected by the hotel domain guardrail"]
Reason(reasoning) == [kind |-> "reason", text |-> reasoning]
Hint(k) == [kind |-> "hint", text |-> <<"Try asking", "room revenue", "occupancy">>[k]]
DONE == [kind |-> "done", text |-> "[DONE]"]
Error == [kind |-> "error", text |-> "ERROR"]

\* bodies of up to n messages, of the two roles of the request model and
\* of the role the frontend gives to replies
RECURSIVE Bodies(_)
Bodies(n) ==
    IF n = 0 THEN { <<>> }
    ELSE Bodies(n - 1) \cup
         { Append(b, Message(role, "q")) :
             b \in { b2 \in Bodies(n - 1) : Len(b2) = n - 1 },
             role \in AllowedRoles \cup {"ai"} }

\* the Clear chat button
ClearChat ==
    /\ status = "none"
    /\ messages' = << Message("ai", "Chat cleared. Ask me anything!") >>
    /\ UNCHANGED <<body, sender, status, spc, output, events>>
    /\ UNCHANGED <<xvars, evars, fvars, rvars>>

\* The user enters a question: it is appended to the history and the
\* history is posted.
Ask ==
    /\ status = "none"
    /\ Len(messages) < MaxMessages
    /\ messages' = Append(messages, Message("user", "q"))
    /\ body' = messages'
    /\ sender' = "ui"
    /\ status' = "sent"
    /\ UNCHANGED <<spc, output, events>>
    /\ UNCHANGED <<xvars, evars, fvars, rvars>>

\* another client posts a request
Post ==
    /\ status = "none"
    /\ \E b \in Bodies(MaxBody) : body' = b
    /\ sender' = "api"
    /\ status' = "sent"
    /\ UNCHANGED <<messages, spc, output, events>>
    /\ UNCHANGED <<xvars, evars, fvars, rvars>>

\* The request is parsed as a ChatRequest, 422 when a message is not a
\* ChatMessage; the endpoint answers 400 to an empty list and starts the
\* response stream otherwise.
chat_endpoint ==
    /\ status = "sent"
    /\ IF \E i \in 1..Len(body) : body[i].role \notin AllowedRoles
       THEN status' = "422" /\ UNCHANGED spc
       ELSE IF body = <<>>
       THEN status' = "400" /\ UNCHANGED spc
       ELSE status' = "200" /\ spc' = "running"
    /\ UNCHANGED <<messages, body, sender, output, events>>
    /\ UNCHANGED <<xvars, evars, fvars, rvars>>

\* The guardrail agent has judged the question; the function returns its
\* output and the tripwire.
hotel_domain_guardrail ==
    /\ spc = "running"
    /\ ~output.ready
    /\ \E related \in BOOLEAN, reasoning \in {"The question is about the weather."} :
         output' = [ready |-> TRUE,
                    is_hotel_data_related |-> related,
                    reasoning |-> reasoning,
                    tripwire_triggered |-> ~related]
    /\ UNCHANGED <<messages, body, sender, status, spc, events>>
    /\ UNCHANGED <<xvars, evars, fvars, rvars>>

\* the tripwire has not been raised into the stream
NotTripped == ~output.ready \/ ~output.tripwire_triggered

\* the number of text events in a stream
RECURSIVE Texts(_)
Texts(es) ==
    IF es = <<>> THEN 0
    ELSE (IF Head(es).kind = "text" THEN 1 ELSE 0) + Texts(Tail(es))

\* An event of the main agent's run arrives, a message or a text delta, and
\* its text is yielded.  The run of the main agent does not wait for the
\* guardrail.
AgentText ==
    /\ spc = "running"
    /\ NotTripped
    /\ Texts(events) < MaxTexts
    /\ events' = Append(events, Text)
    /\ UNCHANGED <<messages, body, sender, status, spc, output>>
    /\ UNCHANGED <<xvars, evars, fvars, rvars>>

\* the events of the run are over: the stream ends with [DONE]
Complete ==
    /\ spc = "running"
    /\ output.ready
    /\ ~output.tripwire_triggered
    /\ events' = Append(events, DONE)
    /\ spc' = "closed"
    /\ UNCHANGED <<messages, body, sender, status, output>>
    /\ UNCHANGED <<xvars, evars, fvars, rvars>>

\* except InputGuardrailTripwireTriggered: the rejection is streamed, with
\* the reasoning of e.args[0].output_info when e.args[0] has one
Tripwire ==
    /\ spc = "running"
    /\ output.ready
    /\ output.tripwire_triggered
    /\ \E has_output_info \in BOOLEAN :
         LET reasoning == IF has_output_info THEN output.reasoning
                          ELSE DefaultReasoning
         IN  events' = events \o << Rejection, Reason(reasoning),
                                    Hint(1), Hint(2), Hint(3), DONE >>
    /\ spc' = "closed"
    /\ UNCHANGED <<messages, body, sender, status, output>>
    /\ UNCHANGED <<xvars, evars, fvars, rvars>>

\* except Exception: the run of the guardrail agent or of the main agent
\* failed, such as by an error of the model API
Failure ==
    /\ spc = "running"
    /\ NotTripped
    /\ events' = Append(events, Error)
    /\ spc' = "closed"
    /\ UNCHANGED <<messages, body, sender, status, output>>
    /\ UNCHANGED <<xvars, evars, fvars, rvars>>

\* The client has the whole response: the frontend stores the reply it
\* read in its history, and stops at raise_for_status() on a 4xx.
Deliver ==
    /\ status \in {"400", "422"} \/ spc = "closed"
    /\ messages' = IF sender = "ui" /\ status = "200"
                   THEN Append(messages, Message("ai", "reply"))
                   ELSE messages
    /\ body' = <<>>
    /\ sender' = "none"
    /\ status' = "none"
    /\ spc' = "idle"
    /\ output' = NoOutput
    /\ events' = <<>>
    /\ UNCHANGED <<xvars, evars, fvars, rvars>>

NextChat ==
    \/ ClearChat
    \/ Ask
    \/ Post
    \/ chat_endpoint
    \/ hotel_domain_guardrail
    \/ AgentText
    \/ Complete
    \/ Tripwire
    \/ Failure
    \/ Deliver

SpecChat == Init /\ [][NextChat]_vars

(***************************************************************************)
(* Properties of the sandbox executor.                                     *)
(***************************************************************************)

\* C1: no import statement for a module outside the whitelisted handles
\* succeeds: the sandbox offers generated code no import primitive.
C1_NoImportSucceeds ==
    imports_done = {}

C3_OnlySheetReaderReachesFiles ==
    file_access \in {"none", "read_sheet_with_custom_header"}

\* the whitelist: the enumerated builtins, the library handles and the
\* data-access function
ListedNames ==
    {"len", "range", "str", "int", "float", "list", "dict", "tuple", "set",
     "print", "sum", "min", "max", "sorted", "any", "all", "enumerate", "zip",
     "round", "abs"}
      \cup {"pd", "re", "date", "datetime", "timedelta"}
      \cup {"read_sheet_with_custom_header"}

\* C4: when a call starts running its source, the names visible to it are
\* exactly the whitelist (the __builtins__ entry, which holds the builtin
\* subset, aside), and its namespaces are the freshly built ones.
C4_NamespaceIsWhitelist ==
    \A c \in Calls :
        (pc[c] = "exec" /\ steps[c] = 0) =>
            /\ VisibleNames(c) \ {"__builtins__"} = ListedNames
            /\ safe_globals[c] = SafeGlobals
            /\ builtins[c] = Builtins
            /\ local_vars[c] = EmptyMap

\* how the call ended
Outcome(c) == <<pc[c], result[c], error[c]>>

\* how the call ends when no other call ever ran: module attributes are the
\* only state a call reads that another call can have written
AloneOutcome(c) ==
    IF solo[c] = NoError THEN Outcome(c) ELSE <<"raised", "none", solo[c]>>

\* C5: a call that ran after the calls before it had ended ends exactly as
\* it would have ended had they never run: nothing they bound or mutated is
\* observable.
C5_SequentialIsolation ==
    \A c \in Calls :
        (Done(c) /\ ~overlapped[c]) => Outcome(c) = AloneOutcome(c)

\* C6: a call that ran while another call was in progress ended as it would
\* have ended had it run alone.
C6_ConcurrentIndependence ==
    \A c \in Calls :
        (Done(c) /\ overlapped[c]) => Outcome(c) = AloneOutcome(c)

\* C11: for every source S that defines the entry point f, executing S in a
\* python-tagged fence and executing S bare end the same way: the same
\* returned value or the same failure.
C11_FencedEqualsBare ==
    (fpc = "done" /\ run(source, "f").kind = "return") => fenced = bare

\* C12: when the source has run and the entry point name is not bound in
\* local_vars, the call fails with the lookup failure, invokes nothing and
\* returns no value; when the name is bound, the entry point is invoked and
\* no lookup failure is raised.
C12_LookupFailureIffUnbound ==
    /\ [](\A c \in Calls :
            /\ error[c].msg = "function-not-found" =>
                 /\ function_name[c] \notin DOMAIN local_vars[c]
                 /\ pc[c] = "raised"
                 /\ result[c] = "none"
                 /\ value[c] = "none"
            /\ pc[c] \in {"call", "returned"} =>
                 function_name[c] \in DOMAIN local_vars[c])
    /\ [][\A c \in Calls :
            (pc[c] = "exec" /\ pc'[c] # "exec" /\ steps'[c] = steps[c]) =>
                IF function_name[c] \in DOMAIN local_vars[c]
                THEN pc'[c] = "call" /\ error'[c] = NoError
                ELSE /\ pc'[c] = "raised"
                     /\ error'[c] = Exc("NameError", "function-not-found",
                                        function_name[c])
                     /\ result'[c] = "none"]_vars

\* C12 witness: the source defined f, the entry point asked for was g and
\* the call raised the lookup failure.
C12_Witness ==
    \E c \in Calls :
        /\ pc[c] = "raised"
        /\ function_name[c] = "g"
        /\ "f" \in DOMAIN local_vars[c]
        /\ error[c] = Exc("NameError", "function-not-found", "g")

\* C13: the lookup failure names the missing entry point and lists the names
\* the source did bind.
C13_LookupFailureListsBound ==
    \A c \in Calls :
        error[c].msg = "function-not-found" =>
            /\ function_name[c] \in NamesInMessage(error[c])
            /\ DOMAIN local_vars[c] \subseteq NamesInMessage(error[c])

\* C14: when the entry point returned a value, the call returns exactly that
\* value to its caller, in type and content.
C14_ReturnsVerbatim ==
    \A c \in Calls :
        (pc[c] = "returned" /\ value[c] # "none") => result[c] = value[c]

\* C15: a call in which a failure was raised (by the compilation, by a
\* statement, by the lookup or by the entry point) ends by raising that
\* failure and returns no value in its place.
C15_FailuresPropagate ==
    \A c \in Calls :
        error[c] # NoError =>
            /\ pc[c] = "raised"
            /\ result[c] = "none"

\* C16: when the source does not compile, the call raises a compilation
\* failure that carries source text, and no statement of the source has run,
\* nothing was bound, looked up or invoked.
C16_CompileFailureCarriesSource ==
    \A c \in Calls :
        error[c].type = "SyntaxError" =>
            /\ ErrorText(error[c]) # "none"
            /\ pc[c] = "raised"
            /\ steps[c] = 0
            /\ local_vars[c] = EmptyMap
            /\ result[c] = "none"
            /\ value[c] = "none"

(***************************************************************************)
(* Properties of the sheet reader.                                         *)
(***************************************************************************)

\* the read returned the rows first to last of the sheet (indexes from 0), in
\* order, each as a record of its cells under the returned column names
ReturnedRows(first, last) ==
    LET rows == out.value.rows
        cols == out.value.columns
    IN  /\ Len(rows) = (IF last >= first THEN last - first + 1 ELSE 0)
        /\ \A i \in 1..Len(rows) :
             /\ DOMAIN rows[i] = { cols[j] : j \in 1..Len(cols) }
             /\ \A j \in 1..Len(cols) : rows[i][cols[j]] = df[first + i][j]

\* the returned column names are the cells of row k of the sheet, lowercased
HeaderIsRow(k) ==
    out.value.columns = [j \in 1..Len(df[k + 1]) |-> lower(df[k + 1][j])]

\* C17 as claimed: a read with config.start = s and config.end = e >= s
\* returns row s as the header and exactly the rows s + 1 to e as data, e - s
\* rows, whatever the number of rows of the sheet; with end absent, all the
\* rows after s.
C17_RowsStartToEnd ==
    (rpc = "read" /\ out.kind = "return" /\ "start" \in DOMAIN config) =>
        /\ HeaderIsRow(config["start"])
        /\ IF "end" \in DOMAIN config
           THEN config["end"] >= config["start"] =>
                    ReturnedRows(config["start"] + 1, config["end"])
           ELSE ReturnedRows(config["start"] + 1, Len(df) - 1)

\* C17 as amended: the data is the rows s + 1 to e that the sheet has: rows
\* s + 1 to e when the sheet has more than e rows, rows s + 1 to the last
\* when it ends earlier.
C17_RowsStartToEndOfSheet ==
    (rpc = "read" /\ out.kind = "return" /\ "start" \in DOMAIN config) =>
        /\ HeaderIsRow(config["start"])
        /\ IF "end" \in DOMAIN config
           THEN config["end"] >= config["start"] =>
                    ReturnedRows(config["start"] + 1,
                                 IF config["end"] < Len(df)
                                 THEN config["end"] ELSE Len(df) - 1)
           ELSE ReturnedRows(config["start"] + 1, Len(df) - 1)

\* C17 witness: start 2 and end 5 on a sheet of six rows returned the rows
\* 3 to 5 under the names of row 2.
C17_Witness ==
    /\ rpc = "read"
    /\ Len(df) = 6
    /\ config = [k \in {"start", "end"} |-> IF k = "start" THEN 2 ELSE 5]
    /\ out.kind = "return"
    /\ out.value.columns = << <<"r", "2", "a">>, <<"r", "2", "b">> >>
    /\ Len(out.value.rows) = 3
    /\ out.value.rows[1][<<"r", "2", "a">>] = <<"R", "3", "A">>
    /\ out.value.rows[3][<<"r", "2", "b">>] = <<"R", "5", "B">>

\* a text with each newline, carriage return and tab, and each run of
\* them, turned into a single space
RECURSIVE CollapseRuns(_)
CollapseRuns(s) ==
    IF s = <<>> THEN <<>>
    ELSE IF Head(s) \in {NL, CR, TAB}
         THEN IF Len(s) >= 2 /\ s[2] \in {NL, CR, TAB}
              THEN CollapseRuns(Tail(s))
              ELSE << SP >> \o CollapseRuns(Tail(s))
    ELSE << Head(s) >> \o CollapseRuns(Tail(s))

\* C18: every returned column name is a header cell trimmed, its newlines,
\* carriage returns and tabs (and runs of them) collapsed to single spaces,
\* and lowercased; none holds a newline, a carriage return or a tab.
C18_ColumnNamesCollapsed ==
    (rpc = "read" /\ out.kind = "return") =>
        \A j \in 1..Len(out.value.columns) :
            /\ out.value.columns[j] \in
                 { lower(CollapseRuns(strip(df[1][k]))) : k \in 1..Len(df[1]) }
            /\ \A i \in 1..Len(out.value.columns[j]) :
                 out.value.columns[j][i] \notin {NL, CR, TAB}

\* C19: a requested name resolves to the first header cell's column exactly
\* when the two are equal under the header sanitiser.
C19_RequestResolvesBySanitiser ==
    (rpc = "read" /\ Len(columns) = 1) =>
        ( sanitise(columns[1]) = sanitise(df[1][1])
          <=> /\ out.kind = "return"
              /\ Len(out.value.rows) = 1
              /\ \E name \in DOMAIN out.value.rows[1] :
                    out.value.rows[1][name] = df[2][1] )

\* C20: a read with a non-empty list of requested columns of which one,
\* blank names included, is not among the normalized header cells fails with
\* the missing-column failure (ValueError), which lists the missing names
\* and all the available columns; no other failure is raised for it.
C20_AbsentColumnIsMissingColumnFailure ==
    (rpc = "read" /\ columns # <<>>) =>
        LET available == { normalize(df[1][k]) : k \in 1..Len(df[1]) }
            absent    == { normalize(columns[i]) : i \in 1..Len(columns) }
                           \ available
        IN  absent # {} =>
                /\ out.kind = "raise"
                /\ out.exc = "ValueError"
                /\ absent \subseteq Range(out.missing)
                /\ Range(out.available) = available

\* the returned column called name is a column of the header row that the
\* requested name asks for
Matches(name, requested) ==
    \E k \in 1..Len(df[1]) :
        /\ name = sanitise(df[1][k])
        /\ normalize(df[1][k]) = normalize(requested)

\* a read of the sheet with a request all of whose names the header has
ProjectedRead ==
    /\ rpc = "read"
    /\ columns # <<>>
    /\ out.kind = "return"

\* C21: a read whose requested columns are all in the header returns
\* exactly one column for each requested name, in the order of the request,
\* also when header cells normalize to the same name.
C21_OneColumnPerRequestedName ==
    ProjectedRead =>
        /\ Len(out.value.columns) = Len(columns)
        /\ \A i \in 1..Len(columns) : Matches(out.value.columns[i], columns[i])

\* C22: every row record of a read that returns has as many entries as the
\* returned column list has names, also when two header cells sanitise to
\* the same name.
C22_RowHasEntryPerColumn ==
    (rpc = "read" /\ out.kind = "return") =>
        \A r \in 1..Len(out.value.rows) :
            Cardinality(DOMAIN out.value.rows[r]) = Len(out.value.columns)

\* names are columns of the header row from position j on, none to the
\* left of the one before
RECURSIVE InHeaderOrder(_, _)
InHeaderOrder(names, j) ==
    IF names = <<>> THEN TRUE
    ELSE \E k \in j..Len(df[1]) :
            /\ Head(names) = sanitise(df[1][k])
            /\ InHeaderOrder(Tail(names), k)

\* C23: the returned columns are the requested columns in the order of the
\* header row, also when the request lists them in another order.
C23_ColumnsInHeaderOrder ==
    ProjectedRead =>
        /\ InHeaderOrder(out.value.columns, 1)
        /\ \A i \in 1..Len(out.value.columns) :
              \E r \in 1..Len(columns) : Matches(out.value.columns[i], columns[r])

\* names is blocks of columns, one block for each requested name in turn
RECURSIVE InRequestOrder(_, _)
InRequestOrder(names, requested) ==
    IF requested = <<>> THEN names = <<>>
    ELSE \E n \in 1..Len(names) :
            /\ \A i \in 1..n : Matches(names[i], Head(requested))
            /\ InRequestOrder(SubSeq(names, n + 1, Len(names)),
                              Tail(requested))

\* C23 as amended: without a request the returned columns are those of the
\* header row in its order; with a request they follow the order of the
\* request: the columns for the first requested name, then those for the
\* second, and so on.
C23_ColumnsInRequestOrder ==
    (rpc = "read" /\ out.kind = "return") =>
        IF columns = <<>>
        THEN out.value.columns = [j \in 1..Len(df[1]) |-> sanitise(df[1][j])]
        ELSE InRequestOrder(out.value.columns, columns)

\* C23 witness: the header is A, B and the request B, a: the read returned
\* the columns b, a.
C23_Witness ==
    /\ rpc = "read"
    /\ df[1] = << <<"A">>, <<"B">> >>
    /\ columns = << <<"B">>, <<"a">> >>
    /\ out.kind = "return"
    /\ out.value.columns = << <<"b">>, <<"a">> >>
    /\ out.value.rows[1][<<"b">>] = <<"2">>

\* C24: a read whose start is not a row of the sheet, or whose end is
\* before its start, raises ValueError and returns nothing.
C24_InvalidRangeIsValueError ==
    LET start == get(config, "start", 0)
    IN  ( /\ rpc = "read"
          /\ \/ start >= Len(df)
             \/ "end" \in DOMAIN config /\ config["end"] < start )
        => (out.kind = "raise" /\ out.exc = "ValueError")

C26_NoTimeout ==
    /\ [][\A c \in Calls : Looping(c) => pc'[c] = pc[c]]_vars
    /\ \A c \in Calls : InFlight(c) ~> (Done(c) \/ Looping(c))

\* C26 witness: the entry point of a call is in a loop that never ends, the
\* call has no result and no error.
C26_Witness ==
    /\ pc["A"] = "call-loop"
    /\ "f" \in DOMAIN local_vars["A"]
    /\ result["A"] = "none"
    /\ error["A"] = NoError

\* C27: the steps of a call come in a fixed order.  The source is
\* extracted and compiled, then its top-level statements run, then the
\* entry point is looked up, then it is invoked: the invocation starts only
\* from the lookup, once per call; after it no top-level statement binds a
\* name; the call ends from there and does not go back.  A lookup that
\* fails leaves in place all that the top-level statements did.
C27_FixedOrder ==
    [][\A c \in Calls :
        /\ pc[c] = "idle" => pc'[c] \in {"idle", "exec", "raised"}
        /\ pc[c] = "exec" => pc'[c] \in {"exec", "call", "raised"}
        /\ pc[c] = "call" => pc'[c] \in {"call", "returned", "raised"}
        /\ Done(c) => pc'[c] \in {pc[c], "idle"}
        /\ (pc[c] # "call" /\ pc'[c] = "call") =>
              /\ steps'[c] = steps[c]
              /\ function_name[c] \in DOMAIN local_vars[c]
        /\ (pc[c] = "call" /\ pc'[c] # "idle") => local_vars'[c] = local_vars[c]
        /\ (pc[c] = "exec" /\ pc'[c] = "raised" /\ steps'[c] = steps[c]) =>
              /\ local_vars'[c] = local_vars[c]
              /\ safe_globals'[c] = safe_globals[c]
              /\ module_attrs' = module_attrs
              /\ imports_done' = imports_done
              /\ file_access' = file_access
      ]_vars

\* C27 witness: the lookup of g failed after the top level of the source
\* had bound f and x.
C27_Witness ==
    /\ pc["A"] = "raised"
    /\ error["A"] = Exc("NameError", "function-not-found", "g")
    /\ DOMAIN local_vars["A"] = {"f", "x"}
    /\ steps["A"] = 2

\* C28: every response stream ends with the event data: [DONE], on the
\* normal path, after a guardrail rejection and after an exception during
\* the agent's processing.
C28_StreamEndsWithDone ==
    spc = "closed" => (events # <<>> /\ events[Len(events)] = DONE)

\* C29: every chat request the frontend sends is accepted by the request
\* model of the backend: the role of each of its messages is user or
\* assistant.
C29_FrontendRequestAccepted ==
    (sender = "ui" /\ status # "none") =>
        /\ \A i \in 1..Len(body) : body[i].role \in AllowedRoles
        /\ status # "422"

\* the stream holds event e and, somewhere after it, event f
Followed(e, f) ==
    \E i \in 1..Len(events), j \in 1..Len(events) :
        i < j /\ events[i] = e /\ events[j] = f

\* C30: the guardrail trips exactly when the output of the guardrail agent
\* says the question is not hotel data related.  A stream that ended after
\* it tripped holds the rejection with the reasoning of the guardrail,
\* then [DONE], and no text of the main agent; a stream that ended without
\* it tripping holds no rejection.
C30_GuardrailRejection ==
    /\ output.ready => (output.tripwire_triggered <=> ~output.is_hotel_data_related)
    /\ (spc = "closed" /\ output.ready /\ output.tripwire_triggered) =>
          /\ Followed(Rejection, Reason(output.reasoning))
          /\ Followed(Reason(output.reasoning), DONE)
          /\ Texts(events) = 0
    /\ (spc = "closed" /\ NotTripped) =>
          \A i \in 1..Len(events) : events[i].kind # "rejection"

(***************************************************************************)
(* Properties of the code extractor.                                       *)
(***************************************************************************)

\* The opening marker line of a fenced block starts at i and the block's
\* interior starts at b: ```, then nothing or the tag python, then spaces
\* or tabs, then a line break (\n or \r\n).
IsOpenerLine(s, i, b) ==
    /\ HasAt(s, i, FENCE)
    /\ \E tag \in {<<>>, PYTHON} :
         /\ HasAt(s, i + 3, tag)
         /\ \E k \in (i + 3 + Len(tag))..Len(s) :
              /\ \A j \in (i + 3 + Len(tag))..(k - 1) : IsBlank(s[j])
              /\ \/ s[k] = NL /\ b = k + 1
                 \/ s[k] = CR /\ HasAt(s, k + 1, <<NL>>) /\ b = k + 2

\* e is the next closing marker after an interior that starts at b
IsNextCloser(s, b, e) ==
    /\ e >= b
    /\ HasAt(s, e, FENCE)
    /\ \A e2 \in b..(e - 1) : ~HasAt(s, e2, FENCE)

\* A fenced block starts at i: an opening marker line and, after it, a
\* closing marker.
HasBlockAt(s, i) ==
    /\ HasAt(s, i, FENCE)
    /\ \E b \in (i + 4)..(Len(s) + 1) :
         /\ IsOpenerLine(s, i, b)
         /\ \E e \in b..Len(s) : HasAt(s, e, FENCE)

HasBlock(s) == \E i \in 1..Len(s) : HasBlockAt(s, i)

\* u is t with its leading and trailing whitespace removed, nothing else
\* changed
IsTrimOf(u, t) ==
    /\ u = <<>> \/ (~IsSpace(u[1]) /\ ~IsSpace(u[Len(u)]))
    /\ \E l \in 0..Len(t) : \E r \in 0..(Len(t) - l) :
         /\ \A j \in 1..l : IsSpace(t[j])
         /\ \A j \in (Len(t) - r + 1)..Len(t) : IsSpace(t[j])
         /\ u = SubSeq(t, l + 1, Len(t) - r)

\* C7: for every response, the extractor returns the trimmed interior of the
\* first fenced block (opening marker line plain or tagged python, up to the
\* next closing marker) when the response holds one, and the trimmed
\* response otherwise.
C7_ExtractsFirstBlockOrTrims ==
    xpc # "compose" =>
        /\ code.kind = "return"
        /\ IF HasBlock(response)
           THEN \A i \in 1..Len(response) :
                  (HasBlockAt(response, i)
                     /\ \A i2 \in 1..(i - 1) : ~HasBlockAt(response, i2))
                  => \A b \in (i + 4)..(Len(response) + 1) :
                       IsOpenerLine(response, i, b)
                       => \A e \in b..Len(response) :
                            IsNextCloser(response, b, e)
                            => IsTrimOf(code.value, SubSeq(response, b, e - 1))
           ELSE IsTrimOf(code.value, response)

\* C7 witness: a python-tagged block was extracted to its interior.
C7_Witness ==
    /\ xpc = "extracted"
    /\ response = FENCE \o PYTHON \o <<NL>> \o <<"x">> \o FENCE
    /\ code = Returned(<<"x">>)

\* A fenced code section with any language hint: ```, a hint of any
\* characters but backticks and line breaks, a line break, and a later ```.
HasHintedSection(s) ==
    \E i \in 1..Len(s) :
      /\ HasAt(s, i, FENCE)
      /\ \E k \in (i + 3)..Len(s) :
           /\ s[k] = NL
           /\ \A j \in (i + 3)..(k - 1) : s[j] \notin {BT, NL}
           /\ \E e \in (k + 1)..Len(s) : HasAt(s, e, FENCE)

\* C8: whenever the response holds a fenced code section, with any language
\* hint, the extracted text neither starts nor ends with a triple backtick.
C8_NoFenceReachesSandbox ==
    (xpc # "compose" /\ HasHintedSection(response)) =>
        /\ code.kind = "return"
        /\ ~HasAt(code.value, 1, FENCE)
        /\ ~HasAt(code.value, Len(code.value) - 2, FENCE)

\* C9: extract(extract(x)) = extract(x) for every response x.
C9_ExtractIdempotent ==
    xpc = "again" => again = code

\* C9 witness: a fenced response was extracted twice.
C9_Witness ==
    /\ xpc = "again"
    /\ HasBlock(response)
    /\ code.value # <<>>
    /\ again = code

\* the characters of the model
Chars == {BT, SP, TAB, NL, CR, "x", "p", "y", "t", "h", "o", "n"}

\* C10: the extractor is total: for every response it returns text, never
\* raises, and the step changes nothing but its own result.
C10_ExtractTotal ==
    /\ [](xpc # "compose" =>
            /\ code.kind = "return"
            /\ code.exc = "none"
            /\ \A j \in 1..Len(code.value) : code.value[j] \in Chars)
    /\ [][Extract => UNCHANGED <<response, nchunks, again, evars>>]_vars

\* C10 witness: the extractor returned for a response that has an opening
\* marker line and no closing marker.
C10_Witness ==
    /\ xpc = "extracted"
    /\ response = FENCE \o <<NL>> \o <<"x">>
    /\ code.kind = "return"

=============================================================================
